---- MODULE Spec2Model ----
(***************************************************************************)
(* Field extractors of backend/app.py (Aadhaar OCR): extract_aadhar,       *)
(* extract_dob, clean_extracted_name and extract_name.                     *)
(*                                                                         *)
(* A Python str is a sequence of characters; a character is a one-letter   *)
(* string, except the Devanagari characters (U+0900..U+097F), which are    *)
(* written dv_na, dv_aa, dv_ma, dv_va, dv_5.  None and a raised exception  *)
(* are sequences no str is equal to.                                       *)
(***************************************************************************)
EXTENDS Integers, Sequences, FiniteSets, TLC

VARIABLES fn, text, text_crop, pc, result, tried

vars == <<fn, text, text_crop, pc, result, tried>>

\* ------------------------------------------------------------------------
\* Values

None == <<"None">>

TypeError == <<"raise", "TypeError">>

AttributeError == <<"raise", "AttributeError">>

IsRaise(v) == Len(v) = 2 /\ v[1] = "raise"

IsStr(v) == v # None /\ ~IsRaise(v)

\* Python truthiness of an optional str: None and "" are falsy
Truthy(v) == v # None /\ v # <<>>

\* ------------------------------------------------------------------------
\* Characters and the character classes of the patterns

UpperSeq == <<"A","B","C","D","E","F","G","H","I","J","K","L","M",
              "N","O","P","Q","R","S","T","U","V","W","X","Y","Z">>

LowerSeq == <<"a","b","c","d","e","f","g","h","i","j","k","l","m",
              "n","o","p","q","r","s","t","u","v","w","x","y","z">>

UpperSet == {UpperSeq[k] : k \in 1..26}

LowerSet == {LowerSeq[k] : k \in 1..26}

AsciiDigits == {"0","1","2","3","4","5","6","7","8","9"}

\* the part of U+0900..U+097F the inputs use: letters na, ma, va, the vowel
\* sign aa (not a \w character) and the digit five (a \d character)
DevaRange == {"dv_na", "dv_aa", "dv_ma", "dv_va", "dv_5"}

\* [A-Za-z]
IsLatin(c) == c \in UpperSet \cup LowerSet

\* [A-Za-zऀ-ॿ]
IsAlpha(c) == IsLatin(c) \/ c \in DevaRange

\* \d (Unicode decimal digits)
IsDigit(c) == c \in AsciiDigits \cup {"dv_5"}

\* \s
IsSpace(c) == c \in {" ", "\t", "\n"}

\* \w (Unicode alphanumerics and underscore)
IsWord(c) == IsLatin(c) \/ c \in AsciiDigits \/ c = "_"
             \/ c \in {"dv_na", "dv_ma", "dv_va", "dv_5"}

IndexOf(sq, c) == CHOOSE k \in 1..Len(sq) : sq[k] = c

LowerOf == [c \in UpperSet |-> LowerSeq[IndexOf(UpperSeq, c)]]

UpperOf == [c \in LowerSet |-> UpperSeq[IndexOf(LowerSeq, c)]]

\* str.lower() / str.upper() of one character
ToLower(c) == IF c \in UpperSet THEN LowerOf[c] ELSE c

ToUpper(c) == IF c \in LowerSet THEN UpperOf[c] ELSE c

LowerStr(s) == [k \in 1..Len(s) |-> ToLower(s[k])]

UpperStr(s) == [k \in 1..Len(s) |-> ToUpper(s[k])]

\* ------------------------------------------------------------------------
\* Sequence helpers

RECURSIVE Flatten(_)
Flatten(ss) == IF ss = <<>> THEN <<>> ELSE Head(ss) \o Flatten(Tail(ss))

\* re.sub(r"\s+", "", s)
RECURSIVE RemoveSpaces(_)
RemoveSpaces(s) ==
    IF s = <<>> THEN <<>>
    ELSE IF IsSpace(Head(s)) THEN RemoveSpaces(Tail(s))
    ELSE <<Head(s)>> \o RemoveSpaces(Tail(s))

Min(S) == CHOOSE x \in S : \A y \in S : x <= y

Max(S) == CHOOSE x \in S : \A y \in S : x >= y

\* ------------------------------------------------------------------------
\* extract_aadhar

Digits4(t, i) == i >= 1 /\ i + 3 <= Len(t) /\ \A k \in i..(i + 3) : IsDigit(t[k])

SpaceAt(t, i) == i >= 1 /\ i <= Len(t) /\ IsSpace(t[i])

\* \d{4}\s?\d{4}\s?\d{4} tried at position i: the position after the match,
\* 0 when there is none.  \s? is greedy: with the space first, then without.
AadharMatchEnd(t, i) ==
    LET G3(c) == IF SpaceAt(t, c) /\ Digits4(t, c + 1) THEN c + 5
                 ELSE IF Digits4(t, c) THEN c + 4
                 ELSE 0
        G2(b) == IF Digits4(t, b) THEN G3(b + 4) ELSE 0
    IN  IF ~Digits4(t, i) THEN 0
        ELSE IF SpaceAt(t, i + 4) /\ G2(i + 5) # 0 THEN G2(i + 5)
        ELSE G2(i + 4)

\* re.search: the leftmost position where the pattern matches, 0 when none
AadharSearch(t) ==
    LET hits == {i \in 1..Len(t) : AadharMatchEnd(t, i) # 0}
    IN  IF hits = {} THEN 0 ELSE Min(hits)

FormatAadhar_nogroup(digits) == SubSeq(digits, 1, 12) \o <<" ", " ">>

FormatAadhar(digits) ==
    SubSeq(digits, 1, 4) \o <<" ">> \o SubSeq(digits, 5, 8) \o <<" ">> \o SubSeq(digits, 9, 12)

extract_aadhar(t) ==
    IF t = None THEN TypeError
    ELSE LET i == AadharSearch(t)
         IN  IF i = 0 THEN None
             ELSE LET digits == RemoveSpaces(SubSeq(t, i, AadharMatchEnd(t, i) - 1))
                  IN  IF Len(digits) # 12 THEN None
                      ELSE FormatAadhar(digits)

\* ------------------------------------------------------------------------
\* extract_dob

IsSep(c) == c \in {"/", "-"}

\* \d{2}[\/\-]\d{2}[\/\-]\d{4} at position i (no backtracking: fixed widths)
DateAt(t, i) ==
    /\ i >= 1
    /\ i + 9 <= Len(t)
    /\ IsDigit(t[i]) /\ IsDigit(t[i + 1])
    /\ IsSep(t[i + 2])
    /\ IsDigit(t[i + 3]) /\ IsDigit(t[i + 4])
    /\ IsSep(t[i + 5])
    /\ \A k \in (i + 6)..(i + 9) : IsDigit(t[k])

DateSearch_last(t) ==
    LET hits == {i \in 1..Len(t) : DateAt(t, i)}
    IN  IF hits = {} THEN 0 ELSE Max(hits)

DateSearch(t) ==
    LET hits == {i \in 1..Len(t) : DateAt(t, i)}
    IN  IF hits = {} THEN 0 ELSE Min(hits)

extract_dob(t) ==
    IF t = None THEN TypeError
    ELSE LET i == DateSearch(t)
         IN  IF i = 0 THEN None ELSE SubSeq(t, i, i + 9)

\* ------------------------------------------------------------------------
\* String operations of clean_extracted_name

\* str.strip()
RECURSIVE LStrip(_)
LStrip(s) == IF s # <<>> /\ IsSpace(Head(s)) THEN LStrip(Tail(s)) ELSE s

RECURSIVE RStrip(_)
RStrip(s) ==
    IF s # <<>> /\ IsSpace(s[Len(s)]) THEN RStrip(SubSeq(s, 1, Len(s) - 1)) ELSE s

Strip(s) == RStrip(LStrip(s))

\* str.split(): the maximal runs of non-whitespace characters
RECURSIVE SplitFrom(_, _)
SplitFrom(s, cur) ==
    IF s = <<>> THEN (IF cur = <<>> THEN <<>> ELSE <<cur>>)
    ELSE IF IsSpace(Head(s))
         THEN (IF cur = <<>> THEN <<>> ELSE <<cur>>) \o SplitFrom(Tail(s), <<>>)
         ELSE SplitFrom(Tail(s), Append(cur, Head(s)))

Split(s) == SplitFrom(s, <<>>)

\* " ".join(parts)
RECURSIVE Join(_)
Join(parts) ==
    IF parts = <<>> THEN <<>>
    ELSE IF Len(parts) = 1 THEN parts[1]
    ELSE parts[1] \o <<" ">> \o Join(Tail(parts))

\* the class the leading strip removes: [^A-Za-zऀ-ॿ]
LeadingJunk_latinonly(c) == ~IsLatin(c)

LeadingJunk(c) == ~IsAlpha(c)

\* re.sub(r"^[^A-Za-zऀ-ॿ]+", "", s)
RECURSIVE StripLeadingJunk(_)
StripLeadingJunk(s) ==
    IF s # <<>> /\ LeadingJunk(Head(s)) THEN StripLeadingJunk(Tail(s)) ELSE s

\* \b before position p of s (p in 1..Len(s)+1)
WordAt(s, p) == p >= 1 /\ p <= Len(s) /\ IsWord(s[p])

Boundary(s, p) == WordAt(s, p - 1) # WordAt(s, p)

\* the literal lit occurs at position i of s, compared case-insensitively
LitAt(s, i, lit) ==
    /\ i + Len(lit) - 1 <= Len(s)
    /\ \A k \in 1..Len(lit) : ToLower(s[i + k - 1]) = ToLower(lit[k])

\* an alternation of literals between two \b, tried at i: the position after
\* the first alternative that matches, 0 when none does
RECURSIVE AltFrom(_, _, _, _)
AltFrom(s, i, alts, k) ==
    IF k > Len(alts) THEN 0
    ELSE IF LitAt(s, i, alts[k]) /\ Boundary(s, i + Len(alts[k]))
         THEN i + Len(alts[k])
         ELSE AltFrom(s, i, alts, k + 1)

AltEnd(s, i, alts) == IF Boundary(s, i) THEN AltFrom(s, i, alts, 1) ELSE 0

LabelAlts ==
    << <<"N","a","m","e">>, <<"N","A","M","E">>,
       <<"dv_na","dv_aa","dv_ma">>, <<"dv_na","dv_aa","dv_va">>,
       <<"D","O","B">>,
       <<"D","a","t","e"," ","o","f"," ","B","i","r","t","h">>,
       <<"D","O","B",":">> >>

TrailingAlts ==
    << <<"M","A","L","E">>, <<"F","E","M","A","L","E">>, <<"V","I","D">>,
       <<"A","a","d","h","a","a","r">>, <<"A","A","D","H","A","A","R">>,
       <<"U","I","D">> >>

\* [:\s\-]* from position p: the position after the run
RECURSIVE SkipLabelTail(_, _)
SkipLabelTail(s, p) ==
    IF p <= Len(s) /\ (s[p] \in {":", "-"} \/ IsSpace(s[p]))
    THEN SkipLabelTail(s, p + 1) ELSE p

\* re.sub(r"\b(Name|NAME|नाम|नाव|DOB|Date of Birth|DOB:)\b[:\s\-]*", "", s,
\*        flags=re.IGNORECASE), scanning from position i
RECURSIVE RemoveLabelsFrom(_, _)
RemoveLabelsFrom(s, i) ==
    IF i > Len(s) THEN <<>>
    ELSE LET e == AltEnd(s, i, LabelAlts)
         IN  IF e # 0 THEN RemoveLabelsFrom(s, SkipLabelTail(s, e))
             ELSE <<s[i]>> \o RemoveLabelsFrom(s, i + 1)

RemoveLabels(s) == RemoveLabelsFrom(s, 1)

\* .* from position p: the position after the run of non-newline characters
RECURSIVE SkipToLineEnd(_, _)
SkipToLineEnd(s, p) == IF p <= Len(s) /\ s[p] # "\n" THEN SkipToLineEnd(s, p + 1) ELSE p

\* $ at position q: the end, or before a final newline
AtEnd(s, q) == q = Len(s) + 1 \/ (q = Len(s) /\ s[q] = "\n")

\* \b(MALE|FEMALE|VID|Aadhaar|AADHAAR|UID)\b.*$ tried at i
TrailingMatchAt(s, i) ==
    LET e == AltEnd(s, i, TrailingAlts)
    IN  e # 0 /\ AtEnd(s, SkipToLineEnd(s, e))

\* re.sub(r"\b(MALE|FEMALE|VID|Aadhaar|AADHAAR|UID)\b.*$", "", s,
\*        flags=re.IGNORECASE)
TruncateTrailing(s) ==
    LET hits == {i \in 1..Len(s) : TrailingMatchAt(s, i)}
    IN  IF hits = {} THEN s
        ELSE LET i == Min(hits)
                 q == SkipToLineEnd(s, AltEnd(s, i, TrailingAlts))
             IN  SubSeq(s, 1, i - 1) \o SubSeq(s, q, Len(s))

Kept_any(c) == TRUE

\* the characters the cleaner keeps: [A-Za-zऀ-ॿ\s\.\'\-]
Kept(c) == IsAlpha(c) \/ IsSpace(c) \/ c \in {".", "'", "-"}

\* re.sub(r"[^A-Za-zऀ-ॿ\s\.\'\-]", " ", s)
ReplaceDisallowed(s) == [k \in 1..Len(s) |-> IF Kept(s[k]) THEN s[k] ELSE " "]

\* re.sub(r"\s{2,}", " ", s)
RECURSIVE CollapseSpaces(_)
CollapseSpaces(s) ==
    IF s = <<>> THEN <<>>
    ELSE IF Len(s) >= 2 /\ IsSpace(s[1]) /\ IsSpace(s[2])
         THEN <<" ">> \o CollapseSpaces(LStrip(s))
         ELSE <<Head(s)>> \o CollapseSpaces(Tail(s))

\* re.fullmatch(r"[A-Za-z]{1,2}", tok)
IsShortLatin(tok) == Len(tok) \in {1, 2} /\ \A k \in 1..Len(tok) : IsLatin(tok[k])

\* re.fullmatch(r"[A-Za-z]\.", tok)
IsInitial(tok) == Len(tok) = 2 /\ IsLatin(tok[1]) /\ tok[2] = "."

\* re.search(r"[A-Za-z]", tok)
HasLatin(tok) == \E k \in 1..Len(tok) : IsLatin(tok[k])

\* str.title(): a cased character is upper-cased after an uncased one (or at
\* the start) and lower-cased after a cased one
RECURSIVE TitleFrom(_, _)
TitleFrom(s, prevCased) ==
    IF s = <<>> THEN <<>>
    ELSE IF IsLatin(Head(s))
         THEN <<(IF prevCased THEN ToLower(Head(s)) ELSE ToUpper(Head(s)))>>
              \o TitleFrom(Tail(s), TRUE)
         ELSE <<Head(s)>> \o TitleFrom(Tail(s), FALSE)

Title(tok) == TitleFrom(tok, FALSE)

CaseToken(tok) ==
    IF HasLatin(tok)
    THEN (IF IsInitial(tok) THEN UpperStr(tok) ELSE Title(tok))
    ELSE tok

CaseTokens(toks) == [k \in 1..Len(toks) |-> CaseToken(toks[k])]

\* parts[1:] when there are several parts and the first is 1-2 Latin letters
DropShortFirst(parts) ==
    IF Len(parts) > 1 /\ IsShortLatin(parts[1]) THEN Tail(parts) ELSE parts

clean_extracted_name(raw_name) ==
    IF ~Truthy(raw_name) THEN None
    ELSE LET s1 == StripLeadingJunk(Strip(raw_name))
             s2 == RemoveLabels(s1)
             s3 == Join(DropShortFirst(Split(s2)))
             s4 == Strip(TruncateTrailing(s3))
             s5 == Strip(CollapseSpaces(ReplaceDisallowed(s4)))
         IN  IF s5 = <<>> THEN None
             ELSE LET res == Join(CaseTokens(Split(s5)))
                  IN  IF Len(Split(res)) < 2 THEN None ELSE res

\* ------------------------------------------------------------------------
\* extract_name

\* str.splitlines(), for the line break the inputs use
RECURSIVE SplitLinesFrom(_, _)
SplitLinesFrom(s, cur) ==
    IF s = <<>> THEN (IF cur = <<>> THEN <<>> ELSE <<cur>>)
    ELSE IF Head(s) = "\n" THEN <<cur>> \o SplitLinesFrom(Tail(s), <<>>)
    ELSE SplitLinesFrom(Tail(s), Append(cur, Head(s)))

SplitLines(s) == SplitLinesFrom(s, <<>>)

\* [l.strip() for l in t.splitlines() if l.strip()]
NonEmptyLines(t) ==
    LET ls == SplitLines(t)
        stripped == [k \in 1..Len(ls) |-> Strip(ls[k])]
    IN  SelectSeq(stripped, LAMBDA l : l # <<>>)

\* re.sub(r"^[^\wऀ-ॿ]+", "", cand)
RECURSIVE StripLeadingNonWord(_)
StripLeadingNonWord(s) ==
    IF s # <<>> /\ ~IsWord(Head(s)) /\ Head(s) \notin DevaRange
    THEN StripLeadingNonWord(Tail(s)) ELSE s

\* the length of the run of digits / of whitespace that starts at position p
RECURSIVE DigitRun(_, _)
DigitRun(s, p) == IF p <= Len(s) /\ IsDigit(s[p]) THEN 1 + DigitRun(s, p + 1) ELSE 0

RECURSIVE SpaceRun(_, _)
SpaceRun(s, p) == IF p <= Len(s) /\ IsSpace(s[p]) THEN 1 + SpaceRun(s, p + 1) ELSE 0

\* re.sub(r"^\d+\s+", "", cand): \d+ takes the whole run of digits (a shorter
\* one is followed by a digit, never by whitespace)
StripNumberPrefix(s) ==
    LET d == DigitRun(s, 1)
        w == SpaceRun(s, d + 1)
    IN  IF d >= 1 /\ w >= 1 THEN SubSeq(s, d + w + 1, Len(s)) ELSE s

\* [A-Za-zऀ-ॿ'\-\.]
IsNameChar(c) == IsAlpha(c) \/ c \in {"'", "-", "."}

RECURSIVE NameCharRun(_, _)
NameCharRun(s, p) ==
    IF p <= Len(s) /\ IsNameChar(s[p]) THEN 1 + NameCharRun(s, p + 1) ELSE 0

\* ([A-Za-zऀ-ॿ][A-Za-zऀ-ॿ'\-\.]{1,}) at p: the position after the word, 0
\* when there is none.  The run is taken whole: what follows a word of the
\* pattern is whitespace or the end of the match.
WordEnd(s, p) ==
    LET n == NameCharRun(s, p)
    IN  IF p >= 1 /\ p <= Len(s) /\ IsAlpha(s[p]) /\ n >= 2 THEN p + n ELSE 0

\* word \s+ word at p: the position after the second word, 0 when none
TwoWordsEnd(s, p) ==
    LET e1 == WordEnd(s, p)
        w == SpaceRun(s, e1)
    IN  IF e1 = 0 \/ w = 0 THEN 0 ELSE WordEnd(s, e1 + w)

\* (?:\d+\s*)? before the two words, by backtracking: d digits and w
\* whitespace characters, the longer first, and at last no prefix at all
RECURSIVE TwoTokenTry(_, _, _)
TwoTokenTry(s, d, w) ==
    IF d = 0 THEN TwoWordsEnd(s, 1)
    ELSE LET e == TwoWordsEnd(s, 1 + d + w)
         IN  IF e # 0 THEN e
             ELSE IF w > 0 THEN TwoTokenTry(s, d, w - 1)
             ELSE TwoTokenTry(s, d - 1, SpaceRun(s, d))

\* re.match(...) on a line: the position after m.group(0), 0 when no match
TwoTokenMatchEnd(line) ==
    TwoTokenTry(line, DigitRun(line, 1), SpaceRun(line, DigitRun(line, 1) + 1))

\* the candidate of the line above a date line
DobCandidate(line) == StripNumberPrefix(StripLeadingNonWord(line))

\* the same loop leaving at the first date line
DobBlockFirstOnly(lines, i) ==
    LET dates == {k \in i..Len(lines) : DateSearch(lines[k]) # 0}
    IN  IF dates = {} \/ Min(dates) = 1 THEN None
        ELSE clean_extracted_name(DobCandidate(lines[Min(dates) - 1]))

\* the loop of find_by_dob_block from index i on (1-based)
RECURSIVE DobBlockFrom(_, _)
DobBlockFrom(lines, i) ==
    IF i > Len(lines) THEN None
    ELSE LET cleaned == clean_extracted_name(DobCandidate(lines[i - 1]))
         IN  IF DateSearch(lines[i]) # 0 /\ i > 1 /\ cleaned # None
             THEN cleaned
             ELSE DobBlockFrom(lines, i + 1)

find_by_dob_block(t) ==
    IF t = None THEN AttributeError
    ELSE DobBlockFrom(NonEmptyLines(t), 1)

\* the loop over the lines of the two-word strategy from index i on
RECURSIVE TwoTokenFrom(_, _)
TwoTokenFrom(lines, i) ==
    IF i > Len(lines) THEN None
    ELSE LET e == TwoTokenMatchEnd(lines[i])
             cleaned == clean_extracted_name(StripNumberPrefix(SubSeq(lines[i], 1, e - 1)))
         IN  IF e # 0 /\ cleaned # None THEN cleaned
             ELSE TwoTokenFrom(lines, i + 1)

find_two_token(t) ==
    IF t = None THEN AttributeError
    ELSE TwoTokenFrom(NonEmptyLines(t), 1)

\* the four strategies, by the position of extract_name that runs them
Strategy(p, full, crop) ==
    CASE p = "crop_dob" -> find_by_dob_block(crop)
      [] p = "crop_two" -> find_two_token(crop)
      [] p = "full_dob" -> find_by_dob_block(full)
      [] p = "full_two" -> find_two_token(full)

\* if text_crop: ... ; the crop strategies are skipped otherwise
FirstStrategy_nocrop(crop) == "full_dob"

FirstStrategy(crop) == IF Truthy(crop) THEN "crop_dob" ELSE "full_dob"

\* where extract_name goes when the strategy at p found nothing
AfterStrategy(p) ==
    CASE p = "crop_dob" -> "crop_two"
      [] p = "crop_two" -> "full_dob"
      [] p = "full_dob" -> "full_two"
      [] p = "full_two" -> "done"

\* ------------------------------------------------------------------------
\* Inputs: a text is a concatenation of a bounded number of fragments

MaxAadharFrags == 5

MaxDobFrags == 5

MaxCleanFrags == 4

MaxBlockLines == 3

MaxFullLines == 2

MaxCropLines == 1

Concats(frags, n) == {Flatten(fs) : fs \in UNION {[1..k -> frags] : k \in 0..n}}

AadharFrags ==
    { <<"1","2","3","4">>, <<"5","6","7","8">>, <<"9","0","1","2">>,
      <<"3">>, <<" ">>, <<"x">>, <<"\n">> }

DobFrags ==
    { <<"0","1","/","0","2","/","1","9","9","0">>,
      <<"0","3","-","0","4","/","2","0","0","1">>,
      <<"1","2">>, <<"1","9","9","9">>, <<"/">>, <<"-">>, <<"x">> }

CleanFrags ==
    { <<"X","y"," ">>, <<"A","b"," ">>, <<"C","d">>, <<"r","A","V","I"," ">>,
      <<"N","a","m","e">>, <<"M","A","L","E">>,
      <<"_">>, <<":","\t">>, <<".">>, <<"dv_ma","dv_ma"," ">> }

\* the lines of a transcript
LinePool ==
    { <<"3"," ","P","a","n","k","a","j"," ","K","h","a","n","n","a">>,
      <<"0","1","/","0","2","/","1","9","9","0">>,
      <<"N","a","m","e","_","R","a","v","i"," ","K","u","m","a","r">>,
      <<"N","a","m","e",":"," ","R","A","V","I"," ","K","U","M","A","R">>,
      <<"#","1","2">>,
      <<" ","X","y"," ","A","b">>,
      <<"dv_5","dv_ma"," ","R","a","v","i">> }

\* "\n".join(lines)
RECURSIVE JoinLines(_)
JoinLines(ls) ==
    IF ls = <<>> THEN <<>>
    ELSE IF Len(ls) = 1 THEN ls[1]
    ELSE ls[1] \o <<"\n">> \o JoinLines(Tail(ls))

Transcripts(n) == {JoinLines(ls) : ls \in UNION {[1..k -> LinePool] : k \in 0..n}}

\* ------------------------------------------------------------------------
\* Specifications of the two pattern extractors

InitAadhar ==
    /\ fn = "extract_aadhar"
    /\ text \in Concats(AadharFrags, MaxAadharFrags) \cup {None}
    /\ text_crop = None
    /\ pc = "start"
    /\ result = None
    /\ tried = <<>>

RunAadhar ==
    /\ fn = "extract_aadhar"
    /\ pc = "start"
    /\ result' = extract_aadhar(text)
    /\ pc' = "done"
    /\ UNCHANGED <<fn, text, text_crop, tried>>

SpecAadhar == InitAadhar /\ [][RunAadhar]_vars

InitDob ==
    /\ fn = "extract_dob"
    /\ text \in Concats(DobFrags, MaxDobFrags) \cup {None}
    /\ text_crop = None
    /\ pc = "start"
    /\ result = None
    /\ tried = <<>>

RunDob ==
    /\ fn = "extract_dob"
    /\ pc = "start"
    /\ result' = extract_dob(text)
    /\ pc' = "done"
    /\ UNCHANGED <<fn, text, text_crop, tried>>

SpecDob == InitDob /\ [][RunDob]_vars

\* ------------------------------------------------------------------------
\* Specification of the Name Cleaner: it is applied to a raw candidate and
\* then to its own output

InitClean ==
    /\ fn = "clean_extracted_name"
    /\ text \in Concats(CleanFrags, MaxCleanFrags) \cup {None}
    /\ text_crop = None
    /\ pc = "start"
    /\ result = None
    /\ tried = <<>>

RunClean ==
    /\ fn = "clean_extracted_name"
    /\ pc = "start"
    /\ result' = clean_extracted_name(text)
    /\ pc' = "once"
    /\ UNCHANGED <<fn, text, text_crop, tried>>

\* the second pass: the output of the first is the input; tried keeps the
\* raw candidate of the first pass
RunCleanAgain ==
    /\ fn = "clean_extracted_name"
    /\ pc = "once"
    /\ result # None
    /\ text' = result
    /\ result' = clean_extracted_name(result)
    /\ tried' = <<text>>
    /\ pc' = "twice"
    /\ UNCHANGED <<fn, text_crop>>

NextClean == RunClean \/ RunCleanAgain

SpecClean == InitClean /\ [][NextClean]_vars

\* ------------------------------------------------------------------------
\* Specification of the DOB-anchored search alone

InitDobBlock ==
    /\ fn = "find_by_dob_block"
    /\ text \in Transcripts(MaxBlockLines)
    /\ text_crop = None
    /\ pc = "start"
    /\ result = None
    /\ tried = <<>>

RunDobBlock ==
    /\ fn = "find_by_dob_block"
    /\ pc = "start"
    /\ result' = find_by_dob_block(text)
    /\ pc' = "done"
    /\ UNCHANGED <<fn, text, text_crop, tried>>

SpecDobBlock == InitDobBlock /\ [][RunDobBlock]_vars

\* ------------------------------------------------------------------------
\* Specification of extract_name: pc is the position in the function, tried
\* the strategies run so far with what each found

InitName ==
    /\ fn = "extract_name"
    /\ text \in Transcripts(MaxFullLines) \cup {None}
    /\ text_crop \in Transcripts(MaxCropLines) \cup {None}
    /\ pc = "start"
    /\ result = None
    /\ tried = <<>>

NameStart ==
    /\ fn = "extract_name"
    /\ pc = "start"
    /\ pc' = FirstStrategy(text_crop)
    /\ UNCHANGED <<fn, text, text_crop, result, tried>>

\* one strategy: return what it found, go to the next one when it found
\* nothing, leave the function when it raised
RunStrategy(p) ==
    /\ fn = "extract_name"
    /\ pc = p
    /\ LET r == Strategy(p, text, text_crop)
       IN  /\ tried' = Append(tried, <<p, r>>)
           /\ IF r # None
              THEN result' = r /\ pc' = "done"
              ELSE result' = None /\ pc' = AfterStrategy(p)
    /\ UNCHANGED <<fn, text, text_crop>>

NameCropDob == RunStrategy("crop_dob")

NameCropTwo == RunStrategy("crop_two")

NameFullDob == RunStrategy("full_dob")

NameFullTwo == RunStrategy("full_two")

NextName == NameStart \/ NameCropDob \/ NameCropTwo \/ NameFullDob \/ NameFullTwo

SpecName == InitName /\ [][NextName]_vars

\* the three extractors the caller uses
InitExtractors == InitAadhar \/ InitDob \/ InitName

NextExtractors == RunAadhar \/ RunDob \/ NextName

SpecExtractors == InitExtractors /\ [][NextExtractors]_vars

\* ------------------------------------------------------------------------
\* Properties of extract_aadhar

Done(f) == fn = f /\ pc = "done" /\ text # None

\* s1, s2 in {0, 1}: the pattern matches at i with s1 and s2 whitespace
\* characters after the first and the second group
AadharOccurs(t, i, s1, s2) ==
    /\ Digits4(t, i)
    /\ (s1 = 1 => SpaceAt(t, i + 4))
    /\ Digits4(t, i + 4 + s1)
    /\ (s2 = 1 => SpaceAt(t, i + 8 + s1))
    /\ Digits4(t, i + 8 + s1 + s2)

AadharOccurrences(t) ==
    {o \in (1..Len(t)) \X {0, 1} \X {0, 1} : AadharOccurs(t, o[1], o[2], o[3])}

AadharShape(r) ==
    /\ Len(r) = 14
    /\ r[5] = " " /\ r[10] = " "
    /\ \A k \in (1..14) \ {5, 10} : IsDigit(r[k])

\* C6: extract_aadhar returns absent or 'dddd dddd dddd', the digits being,
\* in order, those of the first match of 4 digits, optional whitespace,
\* 4 digits, optional whitespace, 4 digits.
C6_AadharFirstMatchRegrouped ==
    Done("extract_aadhar") =>
        LET occ == AadharOccurrences(text)
        IN  IF occ = {} THEN result = None
            ELSE LET i == Min({o[1] : o \in occ})
                     o == CHOOSE x \in occ : x[1] = i
                     g2 == i + 4 + o[2]
                     g3 == g2 + 4 + o[3]
                 IN  /\ AadharShape(result)
                     /\ SubSeq(result, 1, 4) = SubSeq(text, i, i + 3)
                     /\ SubSeq(result, 6, 9) = SubSeq(text, g2, g2 + 3)
                     /\ SubSeq(result, 11, 14) = SubSeq(text, g3, g3 + 3)

C6_Witness ==
    /\ Done("extract_aadhar")
    /\ text = <<"1","2","3","4","5","6","7","8","9","0","1","2">>
    /\ result = <<"1","2","3","4"," ","5","6","7","8"," ","9","0","1","2">>

\* a maximal run of exactly n digits starts at i
DigitRunAt(t, i, n) ==
    /\ i >= 1 /\ i + n - 1 <= Len(t)
    /\ \A k \in i..(i + n - 1) : IsDigit(t[k])
    /\ (i > 1 => ~IsDigit(t[i - 1]))
    /\ (i + n <= Len(t) => ~IsDigit(t[i + n]))

\* C1: a text with a run of 13 consecutive digits and no 12-digit candidate
\* before it makes extract_aadhar return absent.
C1_ThirteenDigitRunRejected ==
    Done("extract_aadhar") =>
        \A i \in 1..Len(text) :
            (DigitRunAt(text, i, 13) /\ \A j \in 1..(i - 1) : AadharMatchEnd(text, j) = 0)
                => result = None

\* ------------------------------------------------------------------------
\* Properties of extract_dob

IsDateShaped(s) ==
    /\ Len(s) = 10
    /\ \A k \in {1, 2, 4, 5, 7, 8, 9, 10} : IsDigit(s[k])
    /\ s[3] \in {"/", "-"} /\ s[6] \in {"/", "-"}

DateShapedAt(t) == {i \in 1..(Len(t) - 9) : IsDateShaped(SubSeq(t, i, i + 9))}

\* C7: extract_dob returns absent exactly when the text has no substring of
\* the shape dd[/-]dd[/-]dddd, and otherwise the leftmost such substring,
\* verbatim.
C7_DobLeftmostVerbatim ==
    Done("extract_dob") =>
        LET hits == DateShapedAt(text)
        IN  /\ result = None <=> hits = {}
            /\ hits # {} => result = SubSeq(text, Min(hits), Min(hits) + 9)

\* two date-shaped substrings, the two separators of the first differ
C7_Witness ==
    /\ Done("extract_dob")
    /\ Cardinality(DateShapedAt(text)) >= 2
    /\ result = <<"0","3","-","0","4","/","2","0","0","1">>

\* ------------------------------------------------------------------------
\* Properties of clean_extracted_name

\* a label or a trailing-field word of the cleaner's patterns occurs in y
HasLabelWord(y) ==
    \E i \in 1..Len(y) : AltEnd(y, i, LabelAlts) # 0 \/ AltEnd(y, i, TrailingAlts) # 0

\* y begins with a letter and with a first token that is not one or two
\* Latin letters, and holds no label or trailing-field word
StableName(y) ==
    /\ y # <<>>
    /\ (IsLatin(y[1]) \/ y[1] \in DevaRange)
    /\ ~IsShortLatin(Split(y)[1])
    /\ ~HasLabelWord(y)

\* C2 (as stated): the Name Cleaner applied to its own non-absent output
\* returns that output.
C2_CleanerIdempotent ==
    (fn = "clean_extracted_name" /\ pc = "twice") => result = text

\* C2 (amended): the Name Cleaner applied to its own non-absent output y
\* returns y when y begins with a letter, its first token is not a 1-2
\* letter Latin word and it holds no label or trailing-field word.
C2_CleanerIdempotentOnStableNames ==
    (fn = "clean_extracted_name" /\ pc = "twice" /\ StableName(text)) => result = text

\* the first pass changed the raw candidate and the second keeps its output
C2_Witness ==
    /\ fn = "clean_extracted_name" /\ pc = "twice"
    /\ StableName(text)
    /\ tried[1] # text
    /\ result = text

\* ------------------------------------------------------------------------
\* Properties of find_by_dob_block

DateLines(lines) == {k \in 1..Len(lines) : DateShapedAt(lines[k]) # {}}

Cleaned(line) == clean_extracted_name(DobCandidate(line))

BlockDone == fn = "find_by_dob_block" /\ pc = "done"

\* C10 (as stated): the DOB-anchored search uses only the first line that
\* matches the date pattern: the result is the cleaned line before it, and
\* absent when there is no such line or the cleaner rejects it.
C10_OnlyFirstDateLine ==
    BlockDone =>
        LET lines == NonEmptyLines(text)
            dates == DateLines(lines)
        IN  result = IF dates = {} \/ Min(dates) = 1 THEN None
                     ELSE Cleaned(lines[Min(dates) - 1])

\* the date lines that have a line above them which the cleaner accepts
AcceptedDateLines(lines) ==
    {k \in DateLines(lines) : k > 1 /\ Cleaned(lines[k - 1]) # None}

\* C10 (amended): the DOB-anchored search goes through the date lines in
\* order and returns the cleaned line above the first one whose line above
\* exists and is accepted by the cleaner; it yields absent only when no
\* date line has such a line above it.
C10_FirstAcceptedDateLine ==
    BlockDone =>
        LET lines == NonEmptyLines(text)
            good == AcceptedDateLines(lines)
        IN  result = IF good = {} THEN None ELSE Cleaned(lines[Min(good) - 1])

\* the first date line is the first line, and a later date line gives the name
C10_Witness ==
    /\ BlockDone
    /\ 1 \in DateLines(NonEmptyLines(text))
    /\ result # None

\* ------------------------------------------------------------------------
\* Properties of extract_name

NameDone == fn = "extract_name" /\ pc = "done" /\ text # None

\* the whitespace-separated tokens of r start where a non-space character
\* follows a space or the start
TokenStarts(r) == {k \in 1..Len(r) : ~IsSpace(r[k]) /\ (k = 1 \/ IsSpace(r[k - 1]))}

TokenAt(r, k) == SubSeq(r, k, Min({j \in k..Len(r) : j = Len(r) \/ IsSpace(r[j + 1])}))

LabelWords ==
    { <<"n","a","m","e">>, <<"d","o","b">>, <<"m","a","l","e">>,
      <<"f","e","m","a","l","e">>, <<"v","i","d">>,
      <<"a","a","d","h","a","a","r">>, <<"u","i","d">> }

\* C3: a non-absent result of extract_name holds none of the label words
\* Name, DOB, MALE, FEMALE, VID, AADHAAR, UID (case-insensitively).
C3_NoLabelWordInName ==
    (NameDone /\ IsStr(result)) =>
        \A k \in TokenStarts(result) : LowerStr(TokenAt(result, k)) \notin LabelWords

LabelledLine == <<"N","a","m","e",":"," ","R","A","V","I"," ","K","U","M","A","R">>

NoiseLine == <<"#","1","2">>

\* C4: a full text whose only name-like line is 'Name: RAVI KUMAR', with no
\* date line, makes extract_name return 'Ravi Kumar'.
C4_LabelledLineGivesName ==
    LET lines == NonEmptyLines(text)
    IN  ( /\ NameDone
          /\ ~Truthy(text_crop)
          /\ \E k \in 1..Len(lines) : lines[k] = LabelledLine
          /\ \A k \in 1..Len(lines) : lines[k] \in {LabelledLine, NoiseLine} )
        => result = <<"R","a","v","i"," ","K","u","m","a","r">>

\* C5: extract_aadhar, extract_dob and extract_name return absent when the
\* transcript is absent.
C5_AbsentTranscriptGivesAbsent ==
    (pc = "done" /\ text = None) => result = None

StrategyOrder(crop) ==
    IF crop # None /\ crop # <<>>
    THEN <<"crop_dob", "crop_two", "full_dob", "full_two">>
    ELSE <<"full_dob", "full_two">>

====
